---- MODULE Spec2Model ----
(***************************************************************************)
(* Twitter Sentiment Analyzer (src/app.py): one Streamlit script run per   *)
(* user interaction.  A run that sees the Analyze button pressed with a    *)
(* truthy query normalises the query, calls the search API through the     *)
(* tweepy client, scores and labels every returned text, and renders the   *)
(* summary, the samples, the insight and the download.                     *)
(*                                                                         *)
(* Strings are sequences of one-character strings.  A polarity p of the    *)
(* program is the integer 20 * p here, so that 0.1 is 2 and 1.0 is 20.     *)
(***************************************************************************)
EXTENDS Integers, Sequences, FiniteSets, TLC

\* ---------------------------------------------------------------- bounds
MaxLen == 2        \* longest user input typed into the text box
MaxTweets == 4     \* most posts one search response carries
MaxAttempts == 2   \* most HTTP requests the client makes in one run

\* ------------------------------------------------------------- alphabets
Whitespace == {" "}
Chars == {" ", "#", "@", "a"}

RECURSIVE SeqsUpTo(_, _)
SeqsUpTo(S, n) ==
    IF n = 0 THEN {<<>>}
    ELSE LET shorter == SeqsUpTo(S, n - 1)
         IN  shorter \cup {Append(s, c) : s \in {t \in shorter : Len(t) = n - 1}, c \in S}

Min(a, b) == IF a < b THEN a ELSE b

\* ------------------------------------------------- str.strip, str.startswith
RECURSIVE lstrip(_)
lstrip(s) == IF s # <<>> /\ Head(s) \in Whitespace THEN lstrip(Tail(s)) ELSE s

RECURSIVE rstrip(_)
rstrip(s) ==
    IF s # <<>> /\ s[Len(s)] \in Whitespace THEN rstrip(SubSeq(s, 1, Len(s) - 1)) ELSE s

strip(s) == rstrip(lstrip(s))

startswith(s, c) == s # <<>> /\ Head(s) = c

\* ------------------------------------------------------- query processing
QuerySuffix ==
    <<" ", "l", "a", "n", "g", ":", "e", "n", " ",
      "-", "i", "s", ":", "r", "e", "t", "w", "e", "e", "t">>

\* The query quoted or passed through as typed, whitespace and all.
processed_query_unstripped(q) ==
    IF ~startswith(q, "#") /\ ~startswith(q, "@")
    THEN <<"\"">> \o q \o <<"\"">>
    ELSE q

processed_query(q) ==
    LET stripped == strip(q)
    IN  IF ~startswith(stripped, "#") /\ ~startswith(stripped, "@")
        THEN <<"\"">> \o stripped \o <<"\"">>
        ELSE stripped

search_query(q) == processed_query(q) \o QuerySuffix

\* --------------------------------------------------------------- scoring
\* The texts the search can return, and the polarity TextBlob gives each
\* (scaled by 20): 0.15, 0.1, -0.1, -0.15.
TweetTexts == <<"love", "fine", "meh", "hate">>

get_sentiment(text) ==
    CASE text = "love"  -> 3
      [] text = "fine"  -> 2
      [] text = "meh"   -> -2
      [] text = "hate"  -> -3

\* The result pages the search can return: every multiset of at most n of
\* these texts, listed in the order above.
RECURSIVE PagesFrom(_, _)
PagesFrom(k, n) ==
    IF n = 0 \/ k > Len(TweetTexts) THEN {<<>>}
    ELSE PagesFrom(k + 1, n)
         \cup {<<TweetTexts[k]>> \o rest : rest \in PagesFrom(k, n - 1)}

Pages(n) == PagesFrom(1, n)

PositiveThreshold == 2
NegativeThreshold == -2

Labels == <<"Positive", "Negative", "Neutral">>
LabelSet == {"Positive", "Negative", "Neutral"}

\* The thresholds taken as inclusive.
Sentiment_inclusive(x) ==
    IF x >= PositiveThreshold THEN "Positive"
    ELSE IF x =< NegativeThreshold THEN "Negative"
    ELSE "Neutral"

Sentiment(x) ==
    IF x > PositiveThreshold THEN "Positive"
    ELSE IF x < NegativeThreshold THEN "Negative"
    ELSE "Neutral"

\* ------------------------------------------------------------ the client
\* tweepy.Client(bearer_token=..., wait_on_rate_limit=True)
wait_on_rate_limit == TRUE

\* What one HTTP exchange with the search endpoint can come back with.
Statuses == {"ok", "bad_request", "unauthorized", "rate_limit", "failure"}

\* What the client does with a response: hand back the data, raise, or (on a
\* rate-limit response with wait_on_rate_limit set) sleep and send it again.
client_outcome(status) ==
    CASE status = "ok"           -> "return"
      [] status = "bad_request"  -> "BadRequest"
      [] status = "unauthorized" -> "Unauthorized"
      [] status = "rate_limit"   ->
            IF wait_on_rate_limit THEN "sleep" ELSE "TooManyRequests"
      [] OTHER                   -> "Exception"

\* The response's data never looked at.
no_data_unchecked(data) == FALSE

\* `if not tweets_response.data`
no_data(data) == data = <<>>

\* The except clauses without their st.stop().
after_search_unstopped(outcome, data) ==
    CASE outcome = "return" -> IF no_data(data) THEN "stopped" ELSE "fetched"
      [] outcome = "sleep"  -> "sleeping"
      [] OTHER              -> "fetched"

\* Where the run goes after the call: on with the texts, into the client's
\* sleep, or st.stop() (after the "no tweets" warning and in every except
\* clause).  The st.stop() after the warning sits inside the try block; the
\* exception it stops the script with is not an Exception, so no except
\* clause sees it.
after_search(outcome, data) ==
    CASE outcome = "return" -> IF no_data(data) THEN "stopped" ELSE "fetched"
      [] outcome = "sleep"  -> "sleeping"
      [] OTHER              -> "stopped"

\* ---------------------------------------------------------- what is shown
Widget(w, b) == [widget |-> w, body |-> b]

WarnNoTweets      == Widget("warning", "No tweets found for this query.")
WarnNoTexts       == Widget("warning", "No tweets found after filtering.")
ErrRateLimit      == Widget("error", "Rate limit exceeded!")
InfoRateLimit     == Widget("info", "Tip: 300 requests per 15-minute window.")
ErrUnauthorized   == Widget("error", "Authentication failed!")
ErrBadRequest     == Widget("error", "Bad request")
InfoBadRequest    == Widget("info", "Try simplifying your search query.")
ErrUnexpected     == Widget("error", "Unexpected error")

\* The except clauses around the search call, in their order.
except_clause(exc) ==
    CASE exc = "TooManyRequests" -> <<ErrRateLimit, InfoRateLimit>>
      [] exc = "Unauthorized"    -> <<ErrUnauthorized>>
      [] exc = "BadRequest"      -> <<ErrBadRequest, InfoBadRequest>>
      [] OTHER                   -> <<ErrUnexpected>>

\* ----------------------------------------------------------------- state
VARIABLES
    pc,             \* where the script run is
    query,          \* content of the text box
    requests,       \* the query parameter of every request sent in this run
    response,       \* status of the last response received in this run
    texts,          \* texts of the fetched posts
    df,             \* the data frame: one row per text
    screen,         \* widgets rendered by this run, in order
    metrics,        \* the three st.metric values, label -> count
    total_tweets,   \* number in the summary subheader
    sample_tweets,  \* label -> rows drawn for its sample section
    insights        \* insight messages shown

vars == <<pc, query, requests, response, texts, df, screen, metrics,
          total_tweets, sample_tweets, insights>>

NoMetrics == <<>>
NoSamples == <<>>

\* A fresh script run: nothing fetched, nothing rendered.
FreshRun ==
    /\ requests = <<>>
    /\ response = "none"
    /\ texts = <<>>
    /\ df = <<>>
    /\ screen = <<>>
    /\ metrics = NoMetrics
    /\ total_tweets = 0
    /\ sample_tweets = NoSamples
    /\ insights = <<>>

DefaultQuery == <<"#", "A", "I">>

Init ==
    /\ pc = "idle"
    /\ query = DefaultQuery
    /\ FreshRun

\* --------------------------------------------------- data frame operations
Rows(frame, label) == {i \in 1..Len(frame) : frame[i].Sentiment = label}

\* df["Sentiment"].value_counts(): only the labels that occur have an entry.
value_counts(frame) ==
    [l \in {frame[i].Sentiment : i \in 1..Len(frame)} |-> Cardinality(Rows(frame, l))]

\* The lookup with the key of the third bucket misspelt.
get_misspelt(counts, label, default) ==
    IF label \in DOMAIN counts /\ label # "Neutral" THEN counts[label] ELSE default

\* sentiment_counts.get(label, 0)
get(counts, label, default) ==
    IF label \in DOMAIN counts THEN counts[label] ELSE default

\* Sampling with replacement.
sample_replace(rows, n) == [1..n -> rows]

\* DataFrame.sample(n): n different rows, in any order.
sample(rows, n) ==
    {s \in [1..n -> rows] : \A i, j \in 1..n : i # j => s[i] # s[j]}

\* sentiment_tweets.sample(min(3, len(sentiment_tweets))) of one label; a
\* label with no row is skipped.
draw(frame, label) ==
    IF Rows(frame, label) = {} THEN {<<>>}
    ELSE sample(Rows(frame, label), Min(3, Cardinality(Rows(frame, label))))

InsightPositive == "Predominantly Positive"
InsightNegative == "Predominantly Negative"
InsightMixed    == "Mixed/Neutral Sentiment"

\* The comparisons taken as non-strict.
insight_nonstrict(pos_count, neg_count, neu_count) ==
    IF pos_count >= neg_count /\ pos_count >= neu_count THEN InsightPositive
    ELSE IF neg_count >= pos_count /\ neg_count >= neu_count THEN InsightNegative
    ELSE InsightMixed

insight(pos_count, neg_count, neu_count) ==
    IF pos_count > neg_count /\ pos_count > neu_count THEN InsightPositive
    ELSE IF neg_count > pos_count /\ neg_count > neu_count THEN InsightNegative
    ELSE InsightMixed

InsightWidget(message) ==
    CASE message = InsightPositive -> "success"
      [] message = InsightNegative -> "error"
      [] OTHER                     -> "info"

RECURSIVE SectionHeadersFrom(_, _)
SectionHeadersFrom(frame, k) ==
    IF k > Len(Labels) THEN <<>>
    ELSE (IF Rows(frame, Labels[k]) # {}
          THEN <<Widget("markdown", Labels[k] \o " Tweets")>>
          ELSE <<>>) \o SectionHeadersFrom(frame, k + 1)

\* for sentiment in ['Positive', 'Negative', 'Neutral']: the section titles.
SectionHeaders(frame) == SectionHeadersFrom(frame, 1)

\* ---------------------------------------------------------------- actions
\* The user edits the text box; the rerun it triggers finds the button
\* unpressed and renders only the static page.
EditQuery ==
    /\ pc = "idle"
    /\ \E q \in SeqsUpTo(Chars, MaxLen) : query' = q
    /\ UNCHANGED <<pc, requests, response, texts, df, screen, metrics,
                   total_tweets, sample_tweets, insights>>

\* The user presses Analyze: `if st.button("Analyze") and query`, the query
\* processing and the call of client.search_recent_tweets.
Analyze ==
    /\ pc = "idle"
    /\ IF query # <<>>
       THEN /\ requests' = <<search_query(query)>>
            /\ pc' = "fetching"
       ELSE /\ requests' = requests
            /\ pc' = "done"
    /\ UNCHANGED <<query, response, texts, df, screen, metrics,
                   total_tweets, sample_tweets, insights>>

\* The search endpoint answers the pending request.
Respond ==
    /\ pc = "fetching"
    /\ \E status \in Statuses, data \in Pages(MaxTweets) :
        /\ status = "rate_limit" => Len(requests) < MaxAttempts
        /\ status # "ok" => data = <<>>
        /\ response' = status
        /\ LET outcome == client_outcome(status)
           IN  /\ pc' = after_search(outcome, data)
               /\ texts' = IF outcome = "return" /\ ~no_data(data) THEN data ELSE texts
               /\ screen' =
                    CASE outcome = "return" ->
                           IF no_data(data) THEN Append(screen, WarnNoTweets) ELSE screen
                      [] outcome = "sleep" -> screen
                      [] OTHER -> screen \o except_clause(outcome)
    /\ UNCHANGED <<query, requests, df, metrics, total_tweets, sample_tweets, insights>>

\* The client has slept until the rate-limit window resets and sends the
\* same request again.
Resend ==
    /\ pc = "sleeping"
    /\ requests' = Append(requests, requests[Len(requests)])
    /\ pc' = "fetching"
    /\ UNCHANGED <<query, response, texts, df, screen, metrics,
                   total_tweets, sample_tweets, insights>>

\* `if not texts` and the "Analyzing sentiment..." block.
SentimentAnalysis ==
    /\ pc = "fetched"
    /\ IF texts = <<>>
       THEN /\ screen' = Append(screen, WarnNoTexts)
            /\ pc' = "stopped"
            /\ df' = df
       ELSE /\ df' = [i \in 1..Len(texts) |->
                        [Tweet     |-> texts[i],
                         Polarity  |-> get_sentiment(texts[i]),
                         Sentiment |-> Sentiment(get_sentiment(texts[i]))]]
            /\ pc' = "analyzed"
            /\ screen' = screen
    /\ UNCHANGED <<query, requests, response, texts, metrics, total_tweets,
                   sample_tweets, insights>>

\* Summary, pie chart, samples, insight and download.
Summary ==
    /\ pc = "analyzed"
    /\ LET sentiment_counts == value_counts(df)
           pos_count == get(sentiment_counts, "Positive", 0)
           neg_count == get(sentiment_counts, "Negative", 0)
           neu_count == get(sentiment_counts, "Neutral", 0)
           message   == insight(pos_count, neg_count, neu_count)
       IN  /\ total_tweets' = Len(df)
           /\ metrics' = [l \in LabelSet |-> get(sentiment_counts, l, 0)]
           /\ \E pos \in draw(df, "Positive"), neg \in draw(df, "Negative"),
                 neu \in draw(df, "Neutral") :
                 sample_tweets' =
                     [l \in {k \in LabelSet : Rows(df, k) # {}} |->
                         CASE l = "Positive" -> pos
                           [] l = "Negative" -> neg
                           [] OTHER          -> neu]
           /\ insights' = Append(insights, message)
           /\ screen' = screen
                 \o <<Widget("subheader", "Sentiment Summary"),
                      Widget("metric", "Positive"),
                      Widget("metric", "Negative"),
                      Widget("metric", "Neutral"),
                      Widget("subheader", "Sentiment Distribution")>>
                 \o (IF Cardinality(DOMAIN sentiment_counts) > 0
                     THEN <<Widget("pyplot", "Sentiment Distribution")>>
                     ELSE <<>>)
                 \o <<Widget("subheader", "Sample Tweets by Sentiment")>>
                 \o SectionHeaders(df)
                 \o <<Widget("subheader", "Sentiment Insights"),
                      Widget(InsightWidget(message), message),
                      Widget("write", "Average Sentiment Score"),
                      Widget("subheader", "Download Results"),
                      Widget("download_button", "Download CSV")>>
    /\ pc' = "done"
    /\ UNCHANGED <<query, requests, response, texts, df>>

\* The next interaction starts a new script run from scratch; the text box
\* keeps its content.
Rerun ==
    /\ pc \in {"done", "stopped"}
    /\ pc' = "idle"
    /\ requests' = <<>>
    /\ response' = "none"
    /\ texts' = <<>>
    /\ df' = <<>>
    /\ screen' = <<>>
    /\ metrics' = NoMetrics
    /\ total_tweets' = 0
    /\ sample_tweets' = NoSamples
    /\ insights' = <<>>
    /\ UNCHANGED query

Next ==
    \/ EditQuery
    \/ Analyze
    \/ Respond
    \/ Resend
    \/ SentimentAnalysis
    \/ Summary
    \/ Rerun

Spec == Init /\ [][Next]_vars

\* ------------------------------------------------------------ properties
Count(label) == Cardinality({i \in 1..Len(df) : df[i].Sentiment = label})

SummaryWidgets == {"metric", "pyplot", "write", "download_button"}

\* Something of the summary, chart, samples, insights or download is out.
SummaryShown ==
    \/ \E i \in 1..Len(screen) : screen[i].widget \in SummaryWidgets
    \/ DOMAIN metrics # {}
    \/ DOMAIN sample_tweets # {}
    \/ insights # <<>>

SearchErrors == {ErrRateLimit, ErrUnauthorized, ErrBadRequest, ErrUnexpected}

ErrorsShown == {i \in 1..Len(screen) : screen[i] \in SearchErrors}

\* C1: after classification of a non-empty collection of texts the Positive,
\* Negative and Neutral counts of the summary add up to the number of texts.
C1_CountsSumToTotal ==
    (pc = "done" /\ texts # <<>>) =>
        /\ DOMAIN metrics = LabelSet
        /\ metrics["Positive"] + metrics["Negative"] + metrics["Neutral"] = Len(texts)
        /\ total_tweets = Len(texts)

C1_Witness ==
    /\ pc = "done"
    /\ Len(texts) = MaxTweets
    /\ DOMAIN metrics = LabelSet
    /\ \A l \in LabelSet : metrics[l] > 0

\* C2: a row is labelled Positive exactly when its polarity is above 0.1
\* (2 on the model's scale), Negative exactly when it is below -0.1, Neutral
\* otherwise; a polarity of exactly 0.1 or -0.1 is Neutral.
C2_LabelByThreshold ==
    \A i \in 1..Len(df) :
        /\ df[i].Sentiment = "Positive" <=> df[i].Polarity > 2
        /\ df[i].Sentiment = "Negative" <=> df[i].Polarity < -2
        /\ df[i].Sentiment = "Neutral"  <=> (df[i].Polarity >= -2 /\ df[i].Polarity =< 2)
        /\ df[i].Polarity \in {2, -2} => df[i].Sentiment = "Neutral"

C2_Witness ==
    /\ \E i \in 1..Len(df) : df[i].Polarity = 2 /\ df[i].Sentiment = "Neutral"
    /\ \E i \in 1..Len(df) : df[i].Polarity = -2 /\ df[i].Sentiment = "Neutral"
    /\ \E i \in 1..Len(df) : df[i].Polarity = 3 /\ df[i].Sentiment = "Positive"
    /\ \E i \in 1..Len(df) : df[i].Polarity = -3 /\ df[i].Sentiment = "Negative"

\* t is q without its first lead and last trail characters, these are all
\* whitespace, and t neither starts nor ends with whitespace.
IsTrimmed(t, q, lead, trail) ==
    /\ lead + trail =< Len(q)
    /\ \A i \in 1..lead : q[i] = " "
    /\ \A i \in (Len(q) - trail + 1)..Len(q) : q[i] = " "
    /\ t = [i \in 1..(Len(q) - lead - trail) |-> q[lead + i]]
    /\ t # <<>> => (t[1] # " " /\ t[Len(t)] # " ")

\* C3: the query sent to the search API is the trimmed input, unmodified if
\* it starts with '#' or '@' and otherwise in double quotes, followed by
\* ' lang:en -is:retweet'.
C3_QuerySent ==
    \A k \in 1..Len(requests) :
        \E lead, trail \in 0..Len(query) :
            /\ lead + trail =< Len(query)
            /\ LET t    == SubSeq(query, lead + 1, Len(query) - trail)
                   body == IF t # <<>> /\ t[1] \in {"#", "@"}
                           THEN t
                           ELSE <<"\"">> \o t \o <<"\"">>
                   tail == SubSeq(requests[k], Len(body) + 1, Len(requests[k]))
               IN  /\ IsTrimmed(t, query, lead, trail)
                   /\ SubSeq(requests[k], 1, Len(body)) = body
                   /\ Len(tail) = 20
                   /\ tail[1] = " " /\ SubSeq(tail, 2, 8) = <<"l", "a", "n", "g", ":", "e", "n">>
                   /\ tail[9] = " "
                   /\ SubSeq(tail, 10, 20) =
                        <<"-", "i", "s", ":", "r", "e", "t", "w", "e", "e", "t">>

C3_Witness ==
    /\ pc = "fetching"
    /\ query = <<" ", "a">>
    /\ requests = << <<"\"", "a", "\"">> \o QuerySuffix >>

\* C4: normalisation and the search call only happen for input that is
\* non-empty after trimming: whitespace-only input never reaches the API.
C4_NeverBlankQuery ==
    requests # <<>> => \E i \in 1..Len(query) : query[i] # " "

\* C5: a search that returns no posts ends in the "no tweets found" warning
\* with the run halted; scoring, classification and aggregation never run on
\* an empty collection.
C5_EmptyResultHalts ==
    /\ (response = "ok" /\ texts = <<>>) =>
          /\ pc = "stopped"
          /\ screen = <<WarnNoTweets>>
          /\ df = <<>>
          /\ ~SummaryShown
    /\ pc \in {"fetched", "analyzed"} => texts # <<>>
    /\ (df # <<>> \/ SummaryShown) => texts # <<>>

C5_Witness ==
    /\ response = "ok"
    /\ texts = <<>>
    /\ pc = "stopped"
    /\ screen = <<WarnNoTweets>>

\* C6: per label the sample shown has at most min(3, posts with that label)
\* rows, no row twice, and only rows of that label; a label without posts
\* has no sample section.
C6_SamplesBounded ==
    pc = "done" =>
        \A l \in LabelSet :
            IF Count(l) = 0
            THEN /\ l \notin DOMAIN sample_tweets
                 /\ \A i \in 1..Len(screen) : screen[i] # Widget("markdown", l \o " Tweets")
            ELSE /\ l \in DOMAIN sample_tweets
                 /\ Len(sample_tweets[l]) =< Min(3, Count(l))
                 /\ \A i, j \in 1..Len(sample_tweets[l]) :
                        i # j => sample_tweets[l][i] # sample_tweets[l][j]
                 /\ \A i \in 1..Len(sample_tweets[l]) :
                        /\ sample_tweets[l][i] \in 1..Len(df)
                        /\ df[sample_tweets[l][i]].Sentiment = l

C6_Witness ==
    /\ pc = "done"
    /\ Count("Positive") > 3
    /\ Len(sample_tweets["Positive"]) = 3
    /\ Count("Negative") = 0
    /\ DOMAIN sample_tweets = {"Positive"}

ErrorOf(status) ==
    CASE status = "rate_limit"   -> ErrRateLimit
      [] status = "unauthorized" -> ErrUnauthorized
      [] status = "bad_request"  -> ErrBadRequest
      [] OTHER                   -> ErrUnexpected

\* C7: each of the four failure kinds of the search call (rate limit,
\* authentication, malformed query, anything else) leads to its own error
\* message, different from the other three, and exactly one of the four is
\* shown for a failed call.
C7_OneMessagePerFailure ==
    response \in Statuses \ {"ok"} =>
        /\ Cardinality(ErrorsShown) = 1
        /\ \A i \in ErrorsShown : screen[i] = ErrorOf(response)
        /\ \A a, b \in Statuses \ {"ok"} : a # b => ErrorOf(a) # ErrorOf(b)

\* C8: a run whose search call raises halts after the error message with
\* nothing of the summary, chart, samples, insights or download produced;
\* such output only follows a successful fetch of at least one text and the
\* classification of every text.
C8_FailsAtomically ==
    /\ response \in {"bad_request", "unauthorized", "failure"} =>
          /\ pc = "stopped"
          /\ ~SummaryShown
          /\ df = <<>>
    /\ SummaryShown =>
          /\ response = "ok"
          /\ Len(texts) >= 1
          /\ Len(df) = Len(texts)
          /\ \A i \in 1..Len(df) : df[i].Tweet = texts[i] /\ df[i].Sentiment \in LabelSet
          /\ ErrorsShown = {}

C8_Witness ==
    /\ response = "bad_request"
    /\ pc = "stopped"
    /\ screen = <<ErrBadRequest, InfoBadRequest>>

\* C9: an Analyze request makes at most one attempt against the search API:
\* after a failed call, a rate-limit failure included, there is no further
\* attempt, wait or backoff in that request.
C9_SingleAttempt ==
    /\ Len(requests) =< 1
    /\ pc # "sleeping"

\* C10: a completed analysis shows exactly one insight: Predominantly
\* Positive exactly when the Positive count exceeds both others,
\* Predominantly Negative exactly when the Negative count exceeds both
\* others, Mixed/Neutral in every other case.
C10_Insight ==
    (pc = "done" /\ df # <<>>) =>
        LET pos == Count("Positive")
            neg == Count("Negative")
            neu == Count("Neutral")
        IN  /\ Len(insights) = 1
            /\ Cardinality({i \in 1..Len(screen) :
                    screen[i].body \in {InsightPositive, InsightNegative, InsightMixed}}) = 1
            /\ insights[1] = InsightPositive <=> (pos > neg /\ pos > neu)
            /\ insights[1] = InsightNegative <=> (neg > pos /\ neg > neu)
            /\ insights[1] = InsightMixed <=>
                  ~(pos > neg /\ pos > neu) /\ ~(neg > pos /\ neg > neu)

C10_Witness ==
    /\ pc = "done"
    /\ Count("Positive") = 2
    /\ Count("Negative") = 2
    /\ insights = <<InsightMixed>>

====
